---- MODULE Spec2Model ----
(***************************************************************************)
(* The crawl-and-summarize Netlify functions of Menenkel/aibulletin.       *)
(*                                                                         *)
(* Spec models the "full local backend" handler and its recursive          *)
(* crawlUrl (netlify/functions/crawl-and-summarize-simple.js 522-795).     *)
(* SpecDeadline models the variant of the same handler whose crawlUrl      *)
(* takes a start time and a time budget (impl = "deadline").               *)
(* SpecCorpus runs the same handlers on requests of CorpusSeeds seeds, to  *)
(* measure the corpus they assemble.  SpecLimit models the three handlers  *)
(* that cap one allContent string at maxContentLength, by lengths.         *)
(* A step of the model is the code between two suspension points (await):  *)
(* the handler and every pending crawlUrl call are processes that the      *)
(* event loop resumes one at a time.  Every awaited external operation     *)
(* (launch, newPage, goto/evaluate, close, the HTTP GET of a PDF, the      *)
(* summarizer) resolves or rejects, chosen by the environment.             *)
(*                                                                         *)
(* A text is a sequence of tokens <<kind, url>>: the piece of text and     *)
(* the URL it came from.  TokLen gives each kind a representative length,  *)
(* so that substring(0, n) is a cut of the token sequence.                 *)
(***************************************************************************)
EXTENDS Integers, Sequences, FiniteSets, TLC

\* ---------------------------------------------------------------- bounds
MaxSeeds == 2       \* longest urls array of a request
MaxLinks == 2       \* most a[href] anchors a page shows
MaxDepthReq == 2    \* largest max_depth of a request
MaxTicks == 3       \* clock ticks (of 5000 ms) a request may take
CorpusSeeds == 3    \* seeds of the requests whose corpus is measured
MaxLimitUrls == 3   \* longest urls array given to a content-capping handler
MaxWideLinks == 6   \* most anchors the page "w" shows
ParallelSeeds == 6  \* seeds of the large request given to the cheerio handler
MaxPathTokens == 2  \* longest path of a URL string, in tokens

\* ------------------------------------------------------------ the web
\* Two HTML pages of one site, an HTML page of another site, a PDF.
HtmlUrls == {"a", "b", "x"}
PdfUrls == {"p"}
Urls == HtmlUrls \cup PdfUrls

\* A third site: a page "w" and the pages its anchors point to, in page order.
WideList == <<"w1", "w2", "w3", "w4", "w5", "w6", "w7", "w8">>
WideUrls == {"w"} \cup {WideList[i] : i \in 1..Len(WideList)}
AllUrls == Urls \cup WideUrls

\* new URL(u).hostname
hostname(u) ==
  IF u = "x" THEN "other.example"
  ELSE IF u \in WideUrls THEN "wide.example"
  ELSE "site.example"

\* What the main element of a page may hold: under 100 characters ("short"),
\* some text ("main") or more than the per-source cap ("mainBig").  The pages
\* of the third site all hold some text.
PageTexts(u) == IF u \in WideUrls THEN {"main"} ELSE {"short", "main", "mainBig"}

\* isPdfUrl(url): decided on the URL's path alone
isPdfUrl(u) == u \in PdfUrls

SeqUpTo(S, n) == UNION {[1..k -> S] : k \in 0..n}

\* ---------------------------------------------------------- constants
FanOutCap == 5          \* sublinks.slice(0, 5)
PerSourceCap == 4000    \* content.substring(0, 4000)
maxElapsedMs == 8000    \* crawlUrl(..., startTime = null, maxElapsedMs = 8000)
DeadlineFanOut == 2     \* sublinks.slice(0, 2)
CappedSeeds == 2        \* part_003: const limitedUrls = urls.slice(0, 2)
CappedLinks == 2        \* part_003: for (const link of links.slice(0, 2))

\* ------------------------------------------------------------- texts
\* Representative lengths: a "mainBig" text fills the per-source cap alone.
TokLen(tok) == IF tok[1] = "mainBig" THEN 4000 ELSE IF tok[1] = "main" THEN 1000 ELSE 100

RECURSIVE TextLen(_)
TextLen(s) == IF s = <<>> THEN 0 ELSE TokLen(Head(s)) + TextLen(Tail(s))

\* s.substring(0, n): the tokens that start before offset n
RECURSIVE Substring(_, _)
Substring(s, n) ==
  IF s = <<>> \/ n <= 0 THEN <<>>
  ELSE <<Head(s)>> \o Substring(Tail(s), n - TokLen(Head(s)))

Has(s, tok) == \E i \in 1..Len(s) : s[i] = tok

\* ------------------------------------------------------------- state
VARIABLES
  req,               \* the request body: urls, follow_links, max_depth
  hpc,               \* where the handler is suspended
  idx,               \* index of the seed the for-loop is at
  exc,               \* an exception is pending while the finally block runs
  browserOpen,       \* the browser launched for the current seed is open
  allContent,        \* the blocks pushed so far
  visitedUrls,       \* the Set shared by every crawlUrl call of the request
  totalUrlsCrawled,
  tasks,             \* the crawlUrl calls started so far, in call order
  response,          \* the handler's return value
  impl,              \* which file's handler runs: "simple" or "deadline"
  now,               \* Date.now(), in ms since the request arrived
  fetches,           \* history: per URL, the network fetches issued
  failedSeeds,       \* history: the seeds whose own page fetch failed
  summarizer,        \* history: how the summarizer call ended
  crawlStart,        \* history: Date.now() when the handler began its crawl loop
  deadlineElapsed,   \* history: the time budget ran out under a pending crawlUrl
  lim,               \* the run of a content-capping handler (lengths only)
  anchors,           \* the web: the a[href] lists a page may show when it is read
  failedUrls,        \* history: the URLs a fetch of which has failed
  cancelled,         \* history: the caller has aborted the request
  event,             \* the request as it arrives: its body, its api_key, the environment's key
  savedData,         \* the module-level savedData.urls, kept between requests
  call,              \* a call of one of the small functions: its input and its reply
  storedData,        \* the module-level storedData of saved-urls.js
  ui                 \* the dashboard (App.jsx): its React state and its pending callbacks

vars == <<req, hpc, idx, exc, browserOpen, allContent, visitedUrls,
          totalUrlsCrawled, tasks, response, impl, now, fetches, failedSeeds, failedUrls,
          summarizer, crawlStart, deadlineElapsed, lim, anchors, cancelled, event,
          savedData, call, storedData, ui>>

Response(status, n, warning) ==
  [status |-> status, urls_analyzed |-> n, crawl_warning |-> warning]

NoResponse == Response(0, 0, FALSE)

\* The seeds of a request are URLs of the one site; the other site's page is
\* met as a link only.
SeedUrls == {u \in Urls : hostname(u) = "site.example"}

Requests ==
  [urls : SeqUpTo(SeedUrls, MaxSeeds), follow_links : BOOLEAN, max_depth : 0..MaxDepthReq]

\* Requests of CorpusSeeds seeds, each crawled one level deep.
CorpusRequests ==
  [urls : [1..CorpusSeeds -> SeedUrls], follow_links : BOOLEAN, max_depth : {1}]

\* no content-capping handler is running
NoLimit == [handler |-> "none", pc |-> "done", urls |-> <<>>, i |-> 1, allContent |-> 0,
            sent |-> 0, status |-> 0]

\* no small function has been called
NoCall == [fn |-> "none"]

\* let storedData = { urls: [], custom_prompt: '', region: 'Global Overview' }
NoStoredData == [urls |-> <<>>, custom_prompt |-> ""]

\* the dashboard before any analysis: progress.stage 'idle', isLoading false,
\* cancelRequest null (0), results []; run counts the analyses submitted, and
\* total, sim, fetch and timer hold, per analysis, the number of URLs, where
\* its simulateCrawling loop stands, its fetch and its completion timer
NoUi == [run |-> 0, stage |-> "idle", isLoading |-> FALSE, cancelRequest |-> 0,
         aborted |-> {}, results |-> <<>>, total |-> <<>>, sim |-> <<>>,
         fetch |-> <<>>, timer |-> <<>>]

\* a POST whose body parses and holds an array urls, sent with the caller's
\* api_key, to a deployment that has OPENAI_API_KEY set
PostedEvent == [body |-> "ok", api_key |-> "key", env_key |-> TRUE]

InitCrawl(reqs) ==
  /\ req \in reqs
  /\ lim = NoLimit
  /\ hpc = "start"
  /\ idx = 1
  /\ exc = FALSE
  /\ browserOpen = FALSE
  /\ allContent = <<>>
  /\ visitedUrls = {}
  /\ totalUrlsCrawled = 0
  /\ tasks = <<>>
  /\ fetches = [u \in AllUrls |-> 0]
  /\ response = NoResponse
  /\ now = 0
  /\ failedSeeds = {}
  /\ failedUrls = {}
  /\ cancelled = FALSE
  /\ event = PostedEvent
  /\ savedData = <<>>
  /\ call = NoCall
  /\ storedData = NoStoredData
  /\ ui = NoUi
  /\ summarizer = "none"
  /\ crawlStart = 0
  /\ deadlineElapsed = FALSE

\* any page of the two small sites may show any list of up to MaxLinks anchors
SmallWeb == SeqUpTo(Urls, MaxLinks)

Init == InitCrawl(Requests) /\ impl = "simple" /\ anchors = SmallWeb

InitDeadline == InitCrawl(Requests) /\ impl = "deadline" /\ anchors = SmallWeb

InitCorpus ==
  InitCrawl(CorpusRequests) /\ impl \in {"simple", "deadline"} /\ anchors = SmallWeb

\* every page of the third site shows the same n anchors, the first n of
\* WideList: n distinct links to its own site
WideWeb == {{SubSeq(WideList, 1, n)} : n \in 0..MaxWideLinks}

\* one seed: the page "w" or the PDF
FanOutRequests == [urls : {<<"w">>, <<"p">>}, follow_links : BOOLEAN, max_depth : 1..2]

InitFanOut == InitCrawl(FanOutRequests) /\ impl = "simple" /\ anchors \in WideWeb

\* ------------------------------------------------------ crawlUrl calls
Task(u, depth, parent, seed, pc) ==
  [url |-> u, depth |-> depth, parent |-> parent, seed |-> seed, pc |-> pc,
   out |-> <<>>, start |-> 0]

\* if (visitedUrls.has(url) || depth > maxDepth) return "";
TooDeepOffByOne(depth, maxDepth) == depth > maxDepth + 1
TooDeep(depth, maxDepth) == depth > maxDepth

\* if (isPdfUrl(url)) { ... extractTextFromPdf ... } inside crawlUrl
PdfBranchMissing(u) == FALSE
PdfBranch(u) == isPdfUrl(u)

\* if (Date.now() - startTime > maxElapsedMs) return "[Crawl stopped early ...]";
BudgetSpent(start) == impl = "deadline" /\ now - start > maxElapsedMs

\* crawlUrl up to its first await: the visited check, the deadline check, the
\* insertion and the dispatch happen in one step.  Result: <<tasks, visitedUrls>>.
\* A call that returns "" at once is kept as a call only when the handler awaits
\* it (parent 0); in the join of a page's sublink texts an "" is filtered out.
\* visitedUrls.add(url), straight after the check and before any await
AddVisitedAfterAwait(vis, u) == vis
AddVisited(vis, u) == vis \cup {u}

\* (the insertion moved before the time check: not what the code does)
StartCallAddFirst(ts, vis, u, depth, parent, seed, start) ==
  IF u \in vis \/ TooDeep(depth, req.max_depth)
  THEN <<IF parent = 0
         THEN Append(ts, [Task(u, depth, parent, seed, "skipped") EXCEPT !.start = start])
         ELSE ts, vis>>
  ELSE IF BudgetSpent(start)
  THEN <<Append(ts, [Task(u, depth, parent, seed, "done")
                       EXCEPT !.start = start, !.out = <<<<"stop", u>>>>]),
         AddVisited(vis, u)>>
  ELSE <<Append(ts, [Task(u, depth, parent, seed,
                          IF PdfBranch(u) THEN "pdf" ELSE "newPage")
                       EXCEPT !.start = start]),
         AddVisited(vis, u)>>

StartCall(ts, vis, u, depth, parent, seed, start) ==
  IF u \in vis \/ TooDeep(depth, req.max_depth)
  THEN <<IF parent = 0
         THEN Append(ts, [Task(u, depth, parent, seed, "skipped") EXCEPT !.start = start])
         ELSE ts, vis>>
  ELSE IF BudgetSpent(start)
  THEN <<Append(ts, [Task(u, depth, parent, seed, "done")
                       EXCEPT !.start = start, !.out = <<<<"stop", u>>>>]), vis>>
  ELSE <<Append(ts, [Task(u, depth, parent, seed,
                          IF PdfBranch(u) THEN "pdf" ELSE "newPage")
                       EXCEPT !.start = start]),
         AddVisited(vis, u)>>

\* sublinks.slice(0, 5).map(href => crawlUrl(href, ...)): the calls start in order
RECURSIVE SpawnAll(_, _, _, _, _, _, _)
SpawnAll(ts, vis, hrefs, depth, parent, seed, start) ==
  IF hrefs = <<>> THEN <<ts, vis>>
  ELSE LET r == StartCall(ts, vis, Head(hrefs), depth, parent, seed, start)
       IN SpawnAll(r[1], r[2], Tail(hrefs), depth, parent, seed, start)

\* hrefs.filter(href => hostname === baseDomain && !visitedUrls.has(href))
SameHostUnvisited(hrefs, base, vis) ==
  SelectSeq(hrefs, LAMBDA h : hostname(h) = hostname(base) /\ h \notin vis)

SliceOffByOne(s, n) == SubSeq(s, 1, IF Len(s) < n + 1 THEN Len(s) ELSE n + 1)
Slice(s, n) == SubSeq(s, 1, IF Len(s) < n THEN Len(s) ELSE n)

Children(t) == {c \in 1..Len(tasks) : tasks[c].parent = t}

RECURSIVE ChildOuts(_, _)
ChildOuts(t, from) ==
  IF from > Len(tasks) THEN <<>>
  ELSE (IF tasks[from].parent = t THEN tasks[from].out ELSE <<>>) \o ChildOuts(t, from + 1)

\* (a call that was rejected never counts as settled: not what await does)
SettledResolvedOnly(t) == tasks[t].pc \in {"done", "skipped"}
Settled(t) == tasks[t].pc \in {"done", "skipped", "rejected"}

\* the browser a call was given is the one launched for its seed
BrowserAlive(t) == browserOpen /\ tasks[t].seed = idx

Fetched(u) == fetches' = [fetches EXCEPT ![u] = @ + 1]

HandlerVars == <<req, hpc, idx, exc, browserOpen, allContent, totalUrlsCrawled,
                 response, impl, now, summarizer, crawlStart, deadlineElapsed, lim,
                 anchors, cancelled, event, savedData,
                 call, storedData, ui>>

\* extractTextFromPdf(url): the GET resolves or rejects; a string either way
TPdf(t) ==
  /\ tasks[t].pc = "pdf"
  /\ \E ok \in BOOLEAN :
       /\ tasks' = [tasks EXCEPT ![t].pc = "done",
                                 ![t].out = <<<<IF ok THEN "pdf" ELSE "pdfErr", tasks[t].url>>>>]
       /\ failedUrls' = IF ok THEN failedUrls ELSE failedUrls \cup {tasks[t].url}
  /\ Fetched(tasks[t].url)
  /\ UNCHANGED <<HandlerVars, visitedUrls, failedSeeds>>

\* const page = await browser.newPage();   (before the try)
TNewPage(t) ==
  /\ tasks[t].pc = "newPage"
  /\ \/ /\ BrowserAlive(t)
        /\ tasks' = [tasks EXCEPT ![t].pc = "goto"]
     \/ tasks' = [tasks EXCEPT ![t].pc = "rejected"]
  /\ UNCHANGED <<HandlerVars, visitedUrls, fetches, failedSeeds, failedUrls>>

\* try { await page.goto(url); const mainText = await page.evaluate(...);
\* "simple": a text under 100 characters is replaced by the stripped
\* page.content() and returned; the hrefs are read only if depth < maxDepth.
\* "deadline": the sublinks are read whatever the text and the depth.
TGoto(t) ==
  /\ tasks[t].pc = "goto"
  /\ LET u == tasks[t].url IN
     \/ /\ tasks' = [tasks EXCEPT ![t].pc = "close", ![t].out = <<<<"err", u>>>>]
        /\ failedSeeds' = IF tasks[t].parent = 0
                          THEN failedSeeds \cup {tasks[t].seed} ELSE failedSeeds
        /\ failedUrls' = failedUrls \cup {u}
     \/ /\ BrowserAlive(t)
        /\ impl = "simple"
        /\ "short" \in PageTexts(u)
        /\ tasks' = [tasks EXCEPT ![t].pc = "close", ![t].out = <<<<"fallback", u>>>>]
        /\ UNCHANGED <<failedSeeds, failedUrls>>
     \/ /\ BrowserAlive(t)
        /\ \E k \in PageTexts(u) \ {"short"} :
             tasks' = [tasks EXCEPT ![t].out = <<<<k, u>>>>,
                                    ![t].pc = IF impl = "simple" /\ tasks[t].depth >= req.max_depth
                                              THEN "close" ELSE "hrefs"]
        /\ UNCHANGED <<failedSeeds, failedUrls>>
  /\ Fetched(tasks[t].url)
  /\ UNCHANGED <<HandlerVars, visitedUrls>>

\* "deadline": const sublinks = await page.evaluate(...);
\*             sublinks = sublinks.slice(0, 2);
\* the assignment to a const binding throws a TypeError when it is executed;
\* the catch returns "Error processing <url>: Assignment to constant variable."
\* (token "errAssign"), the text of a failed goto or evaluate is token "err"
ConstAssignThrows == TRUE

\* "simple": the same-host, not yet visited hrefs, at most 5 of them;
\* "deadline": the hrefs that start with http, at most 2 of them
SublinksUncapped(hrefs, u, vis) == SameHostUnvisited(hrefs, u, vis)
Sublinks(hrefs, u, vis) ==
  IF impl = "simple"
  THEN Slice(SameHostUnvisited(hrefs, u, vis), FanOutCap)
  ELSE Slice(hrefs, DeadlineFanOut)

\* the evaluate of the hrefs, the filter, the slice and the start of the calls
THrefs(t) ==
  /\ tasks[t].pc = "hrefs"
  /\ LET u == tasks[t].url
         thrown == [tasks EXCEPT ![t].pc = "close", ![t].out = <<<<"err", u>>>>]
     IN
     \/ /\ tasks' = thrown
        /\ UNCHANGED visitedUrls
     \/ /\ BrowserAlive(t)
        /\ IF impl = "deadline" /\ ConstAssignThrows
           THEN /\ tasks' = [tasks EXCEPT ![t].pc = "close",
                                          ![t].out = <<<<"errAssign", u>>>>]
                /\ UNCHANGED visitedUrls
           ELSE \E hrefs \in anchors :
                  LET r == SpawnAll([tasks EXCEPT ![t].pc = "await"], visitedUrls,
                                    Sublinks(hrefs, u, visitedUrls), tasks[t].depth + 1,
                                    t, tasks[t].seed, tasks[t].start)
                  IN /\ tasks' = r[1]
                     /\ visitedUrls' = r[2]
  /\ UNCHANGED <<HandlerVars, fetches, failedSeeds, failedUrls>>

\* await Promise.all(sublinkPromises): rejects with the first rejection,
\* resolves when every call has resolved
TAwait(t) ==
  /\ tasks[t].pc = "await"
  /\ LET u == tasks[t].url IN
     \/ /\ \E c \in Children(t) : tasks[c].pc = "rejected"
        /\ tasks' = [tasks EXCEPT ![t].pc = "close", ![t].out = <<<<"err", u>>>>]
     \/ /\ \A c \in Children(t) : tasks[c].pc = "done"
        /\ tasks' = [tasks EXCEPT ![t].pc = "close",
                                  ![t].out = tasks[t].out \o ChildOuts(t, 1)]
  /\ UNCHANGED <<HandlerVars, visitedUrls, fetches, failedSeeds, failedUrls>>

\* finally { await page.close(); }
TClose(t) ==
  /\ tasks[t].pc = "close"
  /\ \/ tasks' = [tasks EXCEPT ![t].pc = "done"]
     \/ tasks' = [tasks EXCEPT ![t].pc = "rejected", ![t].out = <<>>]
  /\ UNCHANGED <<HandlerVars, visitedUrls, fetches, failedSeeds, failedUrls>>

\* Once the handler has returned, the function instance is frozen.
CrawlUrlStep ==
  /\ hpc # "done"
  /\ \E t \in 1..Len(tasks) :
       TPdf(t) \/ TNewPage(t) \/ TGoto(t) \/ THrefs(t) \/ TAwait(t) \/ TClose(t)

\* ------------------------------------------------------- the handler
Block(i, kind, body) == [seed |-> i, url |-> req.urls[i], kind |-> kind, body |-> body]

\* allContent.push(`Source: ${url}\nError processing URL: ${error.message}\n\n`)
ErrorBlock(i) == Block(i, "error", <<<<"err", req.urls[i]>>>>)

\* where the for-loop suspends next: the await of the PDF text or of the launch
SeedPc(i) ==
  IF i > Len(req.urls) THEN "summarize"
  ELSE IF isPdfUrl(req.urls[i]) THEN "pdfSeed" ELSE "launch"

\* the calls of a finished seed are garbage once all of them have settled
Collect(ts) ==
  IF \A t \in 1..Len(ts) : ts[t].pc \in {"done", "skipped", "rejected"} THEN <<>> ELSE ts

\* the end of one loop iteration, with the blocks and the count it leaves;
\* after the last seed: if (allContent.length === 0) return 500
NextSeed(content, total) ==
  /\ allContent' = content
  /\ totalUrlsCrawled' = total
  /\ idx' = idx + 1
  /\ exc' = FALSE
  /\ browserOpen' = FALSE
  /\ IF idx + 1 > Len(req.urls) /\ content = <<>>
     THEN hpc' = "done" /\ response' = Response(500, 0, FALSE)
     ELSE hpc' = SeedPc(idx + 1) /\ response' = response

\* } catch (error) { allContent.push(error block); totalUrlsCrawled += 1; }
CatchSeed == NextSeed(Append(allContent, ErrorBlock(idx)), totalUrlsCrawled + 1)

ClockVars == <<now, deadlineElapsed, lim, anchors, cancelled, event, savedData,
               call, storedData, ui>>

\* if (!urls || !Array.isArray(urls) || urls.length === 0) return 400;
\* savedData = { urls: urls, ... }
HStart ==
  /\ hpc = "start"
  /\ IF req.urls = <<>>
     THEN hpc' = "done" /\ response' = Response(400, 0, FALSE) /\ UNCHANGED savedData
     ELSE hpc' = SeedPc(1) /\ response' = response /\ savedData' = req.urls
  /\ crawlStart' = now
  /\ UNCHANGED <<req, impl, idx, exc, browserOpen, allContent, visitedUrls,
                 totalUrlsCrawled, tasks, fetches, failedSeeds, failedUrls, summarizer,
                 now, deadlineElapsed, lim, anchors, cancelled, event,
                 call, storedData, ui>>

\* a PDF seed: const pdfText = await extractTextFromPdf(url); push; += 1
HPdfSeed ==
  /\ hpc = "pdfSeed"
  /\ \E ok \in BOOLEAN :
       /\ NextSeed(Append(allContent,
                          Block(idx, "pdf",
                                Substring(<<<<IF ok THEN "pdf" ELSE "pdfErr", req.urls[idx]>>>>,
                                          PerSourceCap))),
                   totalUrlsCrawled + 1)
       /\ failedSeeds' = IF ok THEN failedSeeds ELSE failedSeeds \cup {idx}
       /\ failedUrls' = IF ok THEN failedUrls ELSE failedUrls \cup {req.urls[idx]}
  /\ Fetched(req.urls[idx])
  /\ tasks' = Collect(tasks)
  /\ UNCHANGED <<req, impl, visitedUrls, summarizer, crawlStart, ClockVars>>

\* const browser = await puppeteer.launch(...); with follow_links the call of
\* crawlUrl(url, browser, 1, max_depth, visitedUrls) runs to its first await:
\* no startTime is passed, so the call takes its own Date.now()
HLaunch ==
  /\ hpc = "launch"
  /\ \/ /\ CatchSeed
        /\ tasks' = Collect(tasks)
        /\ UNCHANGED visitedUrls
     \/ /\ browserOpen' = TRUE
        /\ IF req.follow_links
           THEN LET r == StartCall(Collect(tasks), visitedUrls, req.urls[idx], 1, 0, idx, now)
                IN tasks' = r[1] /\ visitedUrls' = r[2] /\ hpc' = "crawl"
           ELSE tasks' = Collect(tasks) /\ visitedUrls' = visitedUrls /\ hpc' = "newPage"
        /\ UNCHANGED <<idx, exc, allContent, totalUrlsCrawled, response>>
  /\ UNCHANGED <<req, impl, fetches, failedSeeds, failedUrls, summarizer, crawlStart,
                 ClockVars>>

Root == CHOOSE t \in 1..Len(tasks) : tasks[t].parent = 0 /\ tasks[t].seed = idx

\* const content = await crawlUrl(...); totalUrlsCrawled += visitedUrls.size; push
HCrawlDone ==
  /\ hpc = "crawl"
  /\ Settled(Root)
  /\ IF tasks[Root].pc # "rejected"
     THEN /\ totalUrlsCrawled' = totalUrlsCrawled + Cardinality(visitedUrls)
          /\ allContent' = Append(allContent,
                                  Block(idx, "page", Substring(tasks[Root].out, PerSourceCap)))
          /\ exc' = FALSE
     ELSE /\ exc' = TRUE
          /\ UNCHANGED <<totalUrlsCrawled, allContent>>
  /\ hpc' = "browserClose"
  /\ tasks' = Collect(tasks)
  /\ UNCHANGED <<req, impl, idx, browserOpen, visitedUrls, fetches, response,
                 failedSeeds, failedUrls, summarizer, crawlStart, ClockVars>>

\* follow_links false: const page = await browser.newPage();
HNewPage ==
  /\ hpc = "newPage"
  /\ \/ hpc' = "goto" /\ exc' = FALSE
     \/ hpc' = "browserClose" /\ exc' = TRUE
  /\ UNCHANGED <<req, impl, idx, browserOpen, allContent, visitedUrls, totalUrlsCrawled,
                 tasks, fetches, response, failedSeeds, failedUrls, summarizer, crawlStart,
                 ClockVars>>

\* page.goto, the evaluate, for a short text page.content(), and the push
HGoto ==
  /\ hpc = "goto"
  /\ \/ /\ hpc' = "browserClose" /\ exc' = TRUE
        /\ failedSeeds' = failedSeeds \cup {idx}
        /\ failedUrls' = failedUrls \cup {req.urls[idx]}
        /\ UNCHANGED allContent
     \/ /\ \E k \in {IF x = "short" THEN "fallback" ELSE x : x \in PageTexts(req.urls[idx])} :
             allContent' = Append(allContent,
                                  Block(idx, "page",
                                        Substring(<<<<k, req.urls[idx]>>>>, PerSourceCap)))
        /\ hpc' = "pageClose"
        /\ exc' = FALSE
        /\ UNCHANGED <<failedSeeds, failedUrls>>
  /\ Fetched(req.urls[idx])
  /\ UNCHANGED <<req, impl, idx, browserOpen, visitedUrls, totalUrlsCrawled, tasks,
                 response, summarizer, crawlStart, ClockVars>>

\* await page.close(); totalUrlsCrawled += 1;
HPageClose ==
  /\ hpc = "pageClose"
  /\ \/ exc' = FALSE /\ totalUrlsCrawled' = totalUrlsCrawled + 1
     \/ exc' = TRUE /\ UNCHANGED totalUrlsCrawled
  /\ hpc' = "browserClose"
  /\ UNCHANGED <<req, impl, idx, browserOpen, allContent, visitedUrls, tasks, fetches,
                 response, failedSeeds, failedUrls, summarizer, crawlStart, ClockVars>>

\* finally { await browser.close(); } and, with an exception pending or
\* thrown by the close, the catch of the loop body
HBrowserClose ==
  /\ hpc = "browserClose"
  /\ \/ /\ ~exc
        /\ NextSeed(allContent, totalUrlsCrawled)
     \/ CatchSeed
  /\ UNCHANGED <<req, impl, visitedUrls, tasks, fetches, failedSeeds, failedUrls, summarizer,
                 crawlStart, ClockVars>>

\* "deadline": combinedContent.includes('[Crawl stopped early due to Netlify timeout limit.')
CrawlWarning ==
  /\ impl = "deadline"
  /\ \E b \in 1..Len(allContent) : \E u \in Urls : Has(allContent[b].body, <<"stop", u>>)

\* const completion = await openai.chat.completions.create(...); return 200,
\* or the outer catch: return 500
HSummarize ==
  /\ hpc = "summarize"
  /\ \/ /\ response' = Response(200, totalUrlsCrawled, CrawlWarning)
        /\ summarizer' = "ok"
     \/ /\ response' = Response(500, 0, FALSE)
        /\ summarizer' = "failed"
  /\ hpc' = "done"
  /\ UNCHANGED <<req, impl, idx, exc, browserOpen, allContent, visitedUrls,
                 totalUrlsCrawled, tasks, fetches, failedSeeds, failedUrls, crawlStart,
                 ClockVars>>

HandlerStep ==
  \/ HStart \/ HPdfSeed \/ HLaunch \/ HCrawlDone \/ HNewPage \/ HGoto
  \/ HPageClose \/ HBrowserClose \/ HSummarize

\* Time passes while the handler is suspended.
Tick ==
  /\ hpc \notin {"start", "done"}
  /\ now < MaxTicks * 5000
  /\ now' = now + 5000
  /\ deadlineElapsed' =
       (deadlineElapsed
        \/ \E t \in 1..Len(tasks) : ~Settled(t) /\ now' - tasks[t].start > maxElapsedMs)
  /\ UNCHANGED <<req, impl, hpc, idx, exc, browserOpen, allContent, visitedUrls,
                 totalUrlsCrawled, tasks, response, fetches, failedSeeds, failedUrls, summarizer,
                 crawlStart, lim, anchors, cancelled, event, savedData,
                 call, storedData, ui>>

Next == HandlerStep \/ CrawlUrlStep

Spec == Init /\ [][Next]_vars

NextDeadline == HandlerStep \/ CrawlUrlStep \/ Tick

SpecDeadline == InitDeadline /\ [][NextDeadline]_vars

SpecCorpus == InitCorpus /\ [][Next]_vars

SpecFanOut == InitFanOut /\ [][Next]_vars

\* ------------------------------------------------ the cheerio handler
\* netlify/functions/crawl-and-summarize.js 1-191 (impl = "cheerio"): pages
\* are read with axios and cheerio, every seed is crawled with its own
\* visited Set, all seeds at once, and the links of a page one after another.
\* visitedUrls holds the pairs <<seed, url>>: the url is in the seed's Set.

\* requests with no seed or one, and one with ParallelSeeds seeds whose links
\* are not followed
CheerioRequests ==
  [urls : {<<>>, <<"a">>, <<"p">>}, follow_links : BOOLEAN,
   max_depth : 0..MaxDepthReq]
  \cup {[urls |-> SubSeq(WideList, 1, ParallelSeeds), follow_links |-> FALSE,
          max_depth |-> 1]}

InitCheerio == InitCrawl(CheerioRequests) /\ impl = "cheerio" /\ anchors = SmallWeb

\* crawlUrl(url, 1, follow_links ? max_depth : 1, new Set());
\* part_003 (impl = "capped"): follow_links ? Math.min(max_depth, 1) : 1
CheerioMaxDepth ==
  IF ~req.follow_links THEN 1
  ELSE IF impl = "capped" THEN (IF req.max_depth < 1 THEN req.max_depth ELSE 1)
  ELSE req.max_depth

\* the seeds that are crawled: urls, in part_003 urls.slice(0, 2)
CheerioUrls == IF impl = "capped" THEN Slice(req.urls, CappedSeeds) ELSE req.urls

\* the links of a page that the loop looks at: links.slice(0, 5), in
\* part_003 links.slice(0, 2) and only if (depth < maxDepth && depth === 1)
CheerioLinks(hrefs, depth) ==
  IF depth >= CheerioMaxDepth THEN <<>>
  ELSE IF impl = "capped" THEN (IF depth = 1 THEN Slice(hrefs, CappedLinks) ELSE <<>>)
  ELSE Slice(hrefs, FanOutCap)

CheerioTask(u, depth, parent, seed, pc) ==
  [url |-> u, depth |-> depth, parent |-> parent, seed |-> seed, pc |-> pc,
   out |-> <<>>, start |-> 0, links |-> <<>>]

\* crawlUrl up to its first await:
\* if (depth > maxDepth || visited.has(url)) return ''; visited.add(url);
\* then the GET of the PDF or of the page is issued
CheerioCall(ts, vis, u, depth, parent, seed) ==
  IF depth > CheerioMaxDepth \/ <<seed, u>> \in vis
  THEN <<Append(ts, CheerioTask(u, depth, parent, seed, "skipped")), vis>>
  ELSE <<Append(ts, CheerioTask(u, depth, parent, seed, IF isPdfUrl(u) THEN "pdf" ELSE "get")),
         vis \cup {<<seed, u>>}>>

\* urls.map(url => crawlUrl(url, 1, ..., new Set())): the calls start in order
RECURSIVE CheerioSeeds(_, _, _)
CheerioSeeds(ts, vis, i) ==
  IF i > Len(CheerioUrls) THEN <<ts, vis>>
  ELSE LET r == CheerioCall(ts, vis, CheerioUrls[i], 1, 0, i)
       IN CheerioSeeds(r[1], r[2], i + 1)

\* if (!urls || !Array.isArray(urls) || urls.length === 0) return 400;
\* otherwise every seed's crawlUrl is called and Promise.all is awaited
CStart ==
  /\ impl \in {"cheerio", "capped"}
  /\ hpc = "start"
  /\ IF req.urls = <<>>
     THEN /\ hpc' = "done"
          /\ response' = Response(400, 0, FALSE)
          /\ UNCHANGED <<tasks, visitedUrls, savedData>>
     ELSE /\ hpc' = "crawlAll"
          /\ savedData' = IF impl = "capped" THEN req.urls ELSE savedData
          /\ LET r == CheerioSeeds(<<>>, {}, 1)
             IN tasks' = r[1] /\ visitedUrls' = r[2]
          /\ UNCHANGED response
  /\ UNCHANGED <<req, impl, idx, exc, browserOpen, allContent, totalUrlsCrawled, fetches,
                 failedSeeds, failedUrls, summarizer, crawlStart, now, deadlineElapsed,
                 lim, anchors, cancelled, event, call, storedData, ui>>

CheerioVars == <<req, hpc, idx, exc, browserOpen, allContent, totalUrlsCrawled, response,
                 impl, summarizer, crawlStart, failedSeeds, ClockVars>>

\* return await extractTextFromPDF(url): the text, or its error text
CPdf(t) ==
  /\ tasks[t].pc = "pdf"
  /\ \E ok \in BOOLEAN :
       /\ tasks' = [tasks EXCEPT ![t].pc = "done",
                                 ![t].out = <<<<IF ok THEN "pdf" ELSE "pdfErr", tasks[t].url>>>>]
       /\ failedUrls' = IF ok THEN failedUrls ELSE failedUrls \cup {tasks[t].url}
  /\ Fetched(tasks[t].url)
  /\ UNCHANGED <<CheerioVars, visitedUrls>>

\* the links the for-loop still has to look at, from the first one it will
\* crawl: absoluteUrl.startsWith('http') && !visited.has(absoluteUrl)
RECURSIVE NextToCrawl(_, _, _)
NextToCrawl(links, seed, vis) ==
  IF links = <<>> \/ <<seed, Head(links)>> \notin vis THEN links
  ELSE NextToCrawl(Tail(links), seed, vis)

\* the for-loop over links.slice(0, 5), from where call t stands to its next
\* await: the call for the next link to crawl, or the return of the text
CheerioLoop(ts, vis, t, links) ==
  LET rest == NextToCrawl(links, ts[t].seed, vis) IN
  IF rest = <<>>
  THEN <<[ts EXCEPT ![t].pc = "done", ![t].links = <<>>], vis>>
  ELSE CheerioCall([ts EXCEPT ![t].pc = "links", ![t].links = Tail(rest)], vis,
                   Head(rest), ts[t].depth + 1, t, ts[t].seed)

\* const response = await axios.get(url): rejected, the catch returns the
\* error text; resolved, the text is taken and, if depth < maxDepth, the
\* loop over the first 5 links begins
CGet(t) ==
  /\ tasks[t].pc = "get"
  /\ LET u == tasks[t].url IN
     \/ /\ tasks' = [tasks EXCEPT ![t].pc = "done", ![t].out = <<<<"err", u>>>>]
        /\ failedUrls' = failedUrls \cup {u}
        /\ UNCHANGED visitedUrls
     \/ /\ \E k \in PageTexts(u), hrefs \in anchors :
             LET read == [tasks EXCEPT ![t].out = <<<<k, u>>>>]
                 r == CheerioLoop(read, visitedUrls, t, CheerioLinks(hrefs, tasks[t].depth))
             IN tasks' = r[1] /\ visitedUrls' = r[2]
        /\ UNCHANGED failedUrls
  /\ Fetched(tasks[t].url)
  /\ UNCHANGED CheerioVars

\* const linkText = await crawlUrl(...) has returned: text += '\n\n' + linkText,
\* and the loop goes on to the next link to crawl, or crawlUrl returns
CLink(t) ==
  /\ tasks[t].pc = "links"
  /\ \A c \in Children(t) : Settled(c)
  /\ LET r == CheerioLoop(tasks, visitedUrls, t, tasks[t].links)
         ts == r[1]
     IN /\ tasks' = IF ts[t].pc = "done"
                    THEN [ts EXCEPT ![t].out = @ \o ChildOuts(t, 1)]
                    ELSE ts
        /\ visitedUrls' = r[2]
  /\ UNCHANGED <<CheerioVars, fetches, failedUrls>>

\* the crawlUrl call the handler made for seed i
CheerioRoot(i) == CHOOSE t \in 1..Len(tasks) : tasks[t].parent = 0 /\ tasks[t].seed = i

\* await Promise.all(crawlPromises) resolves when every seed's call has
\* returned (crawlUrl catches what it awaits and never rejects);
\* combinedText = crawledTexts.join('\n\n---\n\n')
CAllDone ==
  /\ impl \in {"cheerio", "capped"}
  /\ hpc = "crawlAll"
  /\ \A t \in 1..Len(tasks) :
       tasks[t].parent = 0 => Settled(t) \/ tasks[t].seed \in failedSeeds
  /\ hpc' = "summarize"
  /\ allContent' = [i \in 1..Len(CheerioUrls) |->
                      IF i \in failedSeeds THEN ErrorBlock(i)
                      ELSE Block(i, "text", tasks[CheerioRoot(i)].out)]
  /\ UNCHANGED <<req, impl, idx, exc, browserOpen, visitedUrls, totalUrlsCrawled, tasks,
                 response, fetches, failedSeeds, failedUrls, summarizer, crawlStart, ClockVars>>

\* await openai.chat.completions.create(...): 200 with urls_processed:
\* urls.length, or the outer catch answers 500
CSummarize ==
  /\ impl \in {"cheerio", "capped"}
  /\ hpc = "summarize"
  /\ \/ /\ response' = Response(200, Len(CheerioUrls), FALSE)
        /\ summarizer' = "ok"
     \/ /\ response' = Response(500, 0, FALSE)
        /\ summarizer' = "failed"
  /\ hpc' = "done"
  /\ UNCHANGED <<req, impl, idx, exc, browserOpen, allContent, visitedUrls,
                 totalUrlsCrawled, tasks, fetches, failedSeeds, failedUrls, crawlStart,
                 ClockVars>>

CheerioCrawlStep ==
  /\ hpc # "done"
  /\ \E t \in 1..Len(tasks) : CPdf(t) \/ CGet(t) \/ CLink(t)

NextCheerio == CStart \/ CAllDone \/ CSummarize \/ CheerioCrawlStep

SpecCheerio == InitCheerio /\ [][NextCheerio]_vars

\* part_003: each seed's crawlUrl is raced against a timer of 6000 ms;
\* when the timer wins, the seed's text is `Error crawling ${url}: Crawl
\* timeout` and the call goes on unawaited
CTimeout ==
  /\ impl = "capped"
  /\ hpc = "crawlAll"
  /\ \E t \in 1..Len(tasks) :
       /\ tasks[t].parent = 0
       /\ ~Settled(t)
       /\ tasks[t].seed \notin failedSeeds
       /\ failedSeeds' = failedSeeds \cup {tasks[t].seed}
  /\ UNCHANGED <<req, hpc, idx, exc, browserOpen, allContent, visitedUrls, totalUrlsCrawled,
                 tasks, response, impl, fetches, failedUrls, summarizer, crawlStart,
                 ClockVars>>

\* the page a links to b and, or, to the PDF p, or to nothing
CappedWeb == {{<<>>}, {<<"b">>}, {<<"b", "p">>}, {<<"p", "b", "x">>}}

CappedRequests ==
  [urls : {<<>>, <<"a">>, <<"p">>, <<"a", "p", "b">>}, follow_links : BOOLEAN,
   max_depth : 1..MaxDepthReq + 1]

InitCapped == InitCrawl(CappedRequests) /\ impl = "capped" /\ anchors \in CappedWeb

NextCapped == CStart \/ CAllDone \/ CSummarize \/ CheerioCrawlStep \/ CTimeout

SpecCapped == InitCapped /\ [][NextCapped]_vars

\* ------------------------------------------------ the crawlWebsite handler
\* netlify/functions/crawl-and-summarize-simple.js 164-453 (impl =
\* "website"): the seeds are taken one after another; a PDF seed goes to
\* processPDF, any other seed to crawlWebsite, which has a visited Set and a
\* results array of its own and crawls the links of a page one after another,
\* the seed at depth 0.  visitedUrls holds the pairs <<seed, url>>, and
\* allContent the results pushed so far, those of the running crawlWebsite
\* included (they reach allContent when it returns).

WebsiteRequests ==
  [urls : {<<"w">>, <<"p">>, <<"w", "p">>}, follow_links : BOOLEAN, max_depth : 0..MaxDepthReq]

InitWebsite == InitCrawl(WebsiteRequests) /\ impl = "website" /\ anchors \in WideWeb

\* results.push({ url, content, type })
Result(i, u, kind, body) == [seed |-> i, url |-> u, kind |-> kind, body |-> body]

\* crawlPage up to its first await:
\* if (depth > maxDepth || visited.has(currentUrl)) return; visited.add(currentUrl);
WebsiteCall(ts, vis, u, depth, parent, seed) ==
  IF depth > req.max_depth \/ <<seed, u>> \in vis
  THEN <<Append(ts, CheerioTask(u, depth, parent, seed, "skipped")), vis>>
  ELSE <<Append(ts, CheerioTask(u, depth, parent, seed, "goto")), vis \cup {<<seed, u>>}>>

\* for (const link of links.slice(0, 5)) if (!visited.has(link)) await crawlPage(link, depth + 1):
\* from where call t stands to its next await, or to its return
WebsiteLoop(ts, vis, t, links) ==
  LET rest == NextToCrawl(links, ts[t].seed, vis) IN
  IF rest = <<>>
  THEN <<[ts EXCEPT ![t].pc = "done", ![t].links = <<>>], vis>>
  ELSE WebsiteCall([ts EXCEPT ![t].pc = "links", ![t].links = Tail(rest)], vis,
                   Head(rest), ts[t].depth + 1, t, ts[t].seed)

\* where the for-loop over the seeds suspends next
WebsiteSeedPc(i) ==
  IF i > Len(req.urls) THEN "summarize"
  ELSE IF isPdfUrl(req.urls[i]) THEN "processPDF" ELSE "crawlWebsite"

\* the handler's checks on urls, then the first seed: crawlWebsite calls
\* crawlPage(url) with depth 0
WebsiteSeed(i) ==
  IF i <= Len(req.urls) /\ ~isPdfUrl(req.urls[i])
  THEN WebsiteCall(<<>>, visitedUrls, req.urls[i], 0, 0, i)
  ELSE <<(<<>>), visitedUrls>>

WStart ==
  /\ impl = "website"
  /\ hpc = "start"
  /\ hpc' = WebsiteSeedPc(1)
  /\ LET r == WebsiteSeed(1) IN tasks' = r[1] /\ visitedUrls' = r[2]
  /\ UNCHANGED <<req, impl, idx, exc, browserOpen, allContent, totalUrlsCrawled, response,
                 fetches, failedSeeds, failedUrls, summarizer, crawlStart, ClockVars>>

WebsiteVars == <<req, impl, exc, browserOpen, totalUrlsCrawled, response, summarizer,
                 crawlStart, failedSeeds, ClockVars>>

\* const pdfResult = await processPDF(url); allContent.push(pdfResult)
WProcessPDF ==
  /\ impl = "website"
  /\ hpc = "processPDF"
  /\ \E ok \in BOOLEAN :
       /\ allContent' = Append(allContent,
                               Result(idx, req.urls[idx], IF ok THEN "pdf" ELSE "pdf_error",
                                      <<<<IF ok THEN "pdf" ELSE "pdfErr", req.urls[idx]>>>>))
       /\ failedUrls' = IF ok THEN failedUrls ELSE failedUrls \cup {req.urls[idx]}
  /\ Fetched(req.urls[idx])
  /\ idx' = idx + 1
  /\ hpc' = WebsiteSeedPc(idx + 1)
  /\ LET r == WebsiteSeed(idx + 1) IN tasks' = r[1] /\ visitedUrls' = r[2]
  /\ UNCHANGED WebsiteVars

\* crawlPage from puppeteer.launch to the end of its for-loop's first round:
\* launch, newPage, goto or evaluate throws and the catch pushes the error
\* result; or the page is read, its first 5 links are kept when followLinks
\* && depth < maxDepth, the result is pushed and the loop begins
WPage(t) ==
  /\ impl = "website"
  /\ tasks[t].pc = "goto"
  /\ LET u == tasks[t].url IN
     \/ /\ tasks' = [tasks EXCEPT ![t].pc = "done"]
        /\ allContent' = Append(allContent, Result(tasks[t].seed, u, "error", <<<<"err", u>>>>))
        /\ failedUrls' = failedUrls \cup {u}
        /\ UNCHANGED visitedUrls
     \/ /\ \E hrefs \in anchors :
             LET links == IF req.follow_links /\ tasks[t].depth < req.max_depth
                          THEN Slice(hrefs, FanOutCap) ELSE <<>>
                 r == WebsiteLoop(tasks, visitedUrls, t, links)
             IN tasks' = r[1] /\ visitedUrls' = r[2]
        /\ allContent' = Append(allContent, Result(tasks[t].seed, u, "webpage", <<<<"main", u>>>>))
        /\ UNCHANGED failedUrls
  /\ Fetched(tasks[t].url)
  /\ UNCHANGED <<WebsiteVars, hpc, idx>>

\* await crawlPage(link, depth + 1) has returned: the loop goes on
WLink(t) ==
  /\ impl = "website"
  /\ tasks[t].pc = "links"
  /\ \A c \in Children(t) : Settled(c)
  /\ LET r == WebsiteLoop(tasks, visitedUrls, t, tasks[t].links)
     IN tasks' = r[1] /\ visitedUrls' = r[2]
  /\ UNCHANGED <<WebsiteVars, hpc, idx, allContent, fetches, failedUrls>>

\* await crawlWebsite(...) has returned: allContent.push(...webResults), next seed
WCrawled ==
  /\ impl = "website"
  /\ hpc = "crawlWebsite"
  /\ \A t \in 1..Len(tasks) : Settled(t)
  /\ idx' = idx + 1
  /\ hpc' = WebsiteSeedPc(idx + 1)
  /\ LET r == WebsiteSeed(idx + 1) IN tasks' = r[1] /\ visitedUrls' = r[2]
  /\ UNCHANGED <<WebsiteVars, allContent, fetches, failedUrls>>

\* await openai.chat.completions.create(...): 200 with urls_processed:
\* urls.length, or the outer catch answers 500
WSummarize ==
  /\ impl = "website"
  /\ hpc = "summarize"
  /\ \/ /\ response' = Response(200, Len(req.urls), FALSE)
        /\ summarizer' = "ok"
        /\ savedData' = req.urls
     \/ /\ response' = Response(500, 0, FALSE)
        /\ summarizer' = "failed"
        /\ UNCHANGED savedData
  /\ hpc' = "done"
  /\ UNCHANGED <<req, impl, idx, exc, browserOpen, allContent, visitedUrls,
                 totalUrlsCrawled, tasks, fetches, failedSeeds, failedUrls, crawlStart,
                 now, deadlineElapsed, lim, anchors, cancelled, event,
                 call, storedData, ui>>

WebsiteCrawlStep == \E t \in 1..Len(tasks) : WPage(t) \/ WLink(t)

NextWebsite == WStart \/ WProcessPDF \/ WCrawled \/ WSummarize \/ WebsiteCrawlStep

SpecWebsite == InitWebsite /\ [][NextWebsite]_vars

\* ------------------------------------ the handlers that cap the content
\* The three handlers that build one allContent string and cap it at
\* maxContentLength.  Strings are represented by their lengths.
LimitHandlers == {"light", "ultraFast", "optimized"}

UrlLens == {20, 600}               \* lengths of the URL strings of a request
TextLens == {0, 50, 1500, 4000, 9000}    \* lengths of the text a page yields
ErrorMessageLen == 30              \* length of an error.message

\* const limitedUrls = urls.slice(0, 2) / urls.slice(0, 1) / urls.slice(0, 3)
UrlLimit(h) == IF h = "light" THEN 2 ELSE IF h = "ultraFast" THEN 1 ELSE 3

limitedUrls == Slice(lim.urls, UrlLimit(lim.handler))

\* textContent.substring(0, 3000) / substring(0, 1500) / content.substring(0, 5000)
ExtractCap(h) == IF h = "light" THEN 3000 ELSE IF h = "ultraFast" THEN 1500 ELSE 5000

Min(m, n) == IF m < n THEN m ELSE n

\* the length of what extractContent / crawlWebsite returns for a text
extractContent(h, textLen) == Min(textLen, ExtractCap(h))

\* const maxContentLength = 4000 / 2000 / 8000
maxContentLength(h) == IF h = "light" THEN 4000 ELSE IF h = "ultraFast" THEN 2000 ELSE 8000

\* '\n\n[Content truncated]' / '\n\n[Content truncated due to length limits]'
TruncationMarkerLen(h) == IF h = "optimized" THEN 42 ELSE 21

\* `\n\n=== Content from ${url} ===\n`, `\n\n=== Web Content from ${url} ===\n`
ContentHeaderLen(h, urlLen) == (IF h = "optimized" THEN 28 ELSE 24) + urlLen

\* `\n\n=== Error processing ${url} ===\n`
ErrorHeaderLen(urlLen) == 28 + urlLen

LimitRuns ==
  [handler : LimitHandlers, pc : {"start"}, urls : SeqUpTo(UrlLens, MaxLimitUrls),
   i : {1}, allContent : {0}, sent : {0}, status : {0}]

InitLimit ==
  /\ lim \in LimitRuns
  /\ req = [urls |-> <<>>, follow_links |-> FALSE, max_depth |-> 1]
  /\ impl = "limit"
  /\ anchors = {}
  /\ hpc = "done"
  /\ idx = 1
  /\ exc = FALSE
  /\ browserOpen = FALSE
  /\ allContent = <<>>
  /\ visitedUrls = {}
  /\ totalUrlsCrawled = 0
  /\ tasks = <<>>
  /\ fetches = [u \in AllUrls |-> 0]
  /\ response = NoResponse
  /\ now = 0
  /\ failedSeeds = {}
  /\ failedUrls = {}
  /\ cancelled = FALSE
  /\ event = PostedEvent
  /\ savedData = <<>>
  /\ call = NoCall
  /\ storedData = NoStoredData
  /\ ui = NoUi
  /\ summarizer = "none"
  /\ crawlStart = 0
  /\ deadlineElapsed = FALSE

CrawlVars == <<req, hpc, idx, exc, browserOpen, allContent, visitedUrls, totalUrlsCrawled,
               tasks, response, impl, now, fetches, failedSeeds, failedUrls, summarizer,
               crawlStart,
               deadlineElapsed, anchors, cancelled, event, savedData,
               call, storedData, ui>>

\* if (!urls || !Array.isArray(urls) || urls.length === 0) return 400
LimStart ==
  /\ lim.pc = "start"
  /\ lim' = IF lim.urls = <<>>
            THEN [lim EXCEPT !.pc = "done", !.status = 400]
            ELSE [lim EXCEPT !.pc = "loop"]
  /\ UNCHANGED CrawlVars

\* what the helper returns from its own catch:
\* `Error extracting content from ${url}: ${error.message}`, `Error: ${error.message}`,
\* `Error crawling ${url}: ${error.message}`
ErrorTextLen(h, urlLen) ==
  IF h = "light" THEN 32 + urlLen + ErrorMessageLen
  ELSE IF h = "ultraFast" THEN 7 + ErrorMessageLen
  ELSE 17 + urlLen + ErrorMessageLen

\* `PDF content from ${url} - [PDF processing would extract text here]`
PdfPlaceholderLen(urlLen) == 60 + urlLen

\* one iteration of for (const url of limitedUrls): the helper's string is
\* appended under the content header; when the await rejects ("ultraFast":
\* the 6000 ms timer wins the race, "optimized": browser.close() in the
\* helper's finally) the catch appends the error message under its header
LimExtract ==
  /\ lim.pc = "loop"
  /\ lim.i <= Len(limitedUrls)
  /\ LET h == lim.handler
         urlLen == limitedUrls[lim.i]
         Add(n) == lim' = [lim EXCEPT !.i = @ + 1, !.allContent = @ + n]
     IN \/ \E textLen \in TextLens :
             Add(ContentHeaderLen(h, urlLen) + extractContent(h, textLen))
        \/ Add(ContentHeaderLen(h, urlLen) + ErrorTextLen(h, urlLen))
        \/ /\ h = "optimized"
           /\ Add(ContentHeaderLen(h, urlLen) + PdfPlaceholderLen(urlLen))
        \/ /\ h # "light"
           /\ Add(ErrorHeaderLen(urlLen) + ErrorMessageLen)
  /\ UNCHANGED CrawlVars

\* if (allContent.length > maxContentLength)
\*   allContent = allContent.substring(0, maxContentLength) + marker;
\* and the string goes into the prompt of the completion request
LimCap ==
  /\ lim.pc = "loop"
  /\ lim.i > Len(limitedUrls)
  /\ LET capped == IF lim.allContent > maxContentLength(lim.handler)
                   THEN Min(lim.allContent, maxContentLength(lim.handler))
                          + TruncationMarkerLen(lim.handler)
                   ELSE lim.allContent
     IN lim' = [lim EXCEPT !.pc = "sent", !.allContent = capped, !.sent = capped]
  /\ UNCHANGED CrawlVars

\* the completion resolves (200) or rejects (500)
LimRespond ==
  /\ lim.pc = "sent"
  /\ \E st \in {200, 500} : lim' = [lim EXCEPT !.pc = "done", !.status = st]
  /\ UNCHANGED CrawlVars

NextLimit == LimStart \/ LimExtract \/ LimCap \/ LimRespond

SpecLimit == InitLimit /\ [][NextLimit]_vars

\* ------------------------------------------------ the corpus of the full handler
UrlLen(u) == 20

\* `Source: ${url}\n${content.substring(0, 4000)}\n\n`, for a PDF `Source: ${url} (PDF)\n...`
BlockLen(b) ==
  (IF b.kind = "pdf" THEN 17 ELSE 11) + UrlLen(b.url) + Min(TextLen(b.body), PerSourceCap)

RECURSIVE SumBlocks(_)
SumBlocks(bs) == IF bs = <<>> THEN 0 ELSE BlockLen(Head(bs)) + SumBlocks(Tail(bs))

\* allContent.join('\n').length
combinedContent == SumBlocks(allContent) + (IF allContent = <<>> THEN 0 ELSE Len(allContent) - 1)

CorpusCap == 12000      \* combinedContent.substring(0, 12000)

\* ------------------------------------------------ the small functions
\* no crawl is running: the state of the crawl handlers while one of the
\* small functions is called
NoCrawl ==
  /\ req = [urls |-> <<>>, follow_links |-> FALSE, max_depth |-> 1]
  /\ lim = NoLimit
  /\ hpc = "done"
  /\ idx = 1
  /\ exc = FALSE
  /\ browserOpen = FALSE
  /\ allContent = <<>>
  /\ visitedUrls = {}
  /\ totalUrlsCrawled = 0
  /\ tasks = <<>>
  /\ fetches = [u \in AllUrls |-> 0]
  /\ response = NoResponse
  /\ now = 0
  /\ failedSeeds = {}
  /\ failedUrls = {}
  /\ cancelled = FALSE
  /\ savedData = <<>>
  /\ summarizer = "none"
  /\ crawlStart = 0
  /\ deadlineElapsed = FALSE
  /\ anchors = {}

CrawlState == <<req, hpc, idx, exc, browserOpen, allContent, visitedUrls, totalUrlsCrawled,
                tasks, response, impl, now, fetches, failedSeeds, failedUrls, summarizer,
                crawlStart, deadlineElapsed, lim, anchors, cancelled, savedData>>

\* ------------------------------------------------ isPdfUrl on URL strings
\* A URL string is its scheme ("none": the string has none, as in
\* "docs/report.pdf"), its path as a sequence of tokens and its query.  The
\* letters p, d, f occur in the tokens "pdf", ".pdf" and ".PDF" only.
PathTokens == {"/doc", "/pdf", ".pdf", ".PDF", ".html"}

Queries == {"", "?page=2", "?file=.pdf"}

UrlStrings ==
  [scheme : {"https", "none"}, path : SeqUpTo(PathTokens, MaxPathTokens) \ {<<>>},
   query : Queries]

\* String.prototype.toLowerCase, token by token
toLowerCase(tok) == IF tok = ".PDF" THEN ".pdf" ELSE tok

\* s.toLowerCase().endsWith('.pdf') for a sequence of tokens
endsWithPdf(toks) == toks # <<>> /\ toLowerCase(toks[Len(toks)]) = ".pdf"

\* s.toLowerCase().includes('pdf')
includesPdf(toks) == \E i \in 1..Len(toks) : toLowerCase(toks[i]) \in {"/pdf", ".pdf"}

\* crawl-and-summarize-simple.js isPdfUrl: new URL(url) throws a TypeError
\* for a string that is no absolute URL; otherwise
\* pathname.toLowerCase().endsWith('.pdf') || pathname.toLowerCase().includes('pdf')
isPdfUrlString(u) ==
  IF u.scheme = "none" THEN "throws"
  ELSE IF endsWithPdf(u.path) \/ includesPdf(u.path) THEN "pdf" ELSE "html"

\* crawl-and-summarize.js crawlUrl: url.toLowerCase().endsWith('.pdf'), on
\* the whole string
endsWithPdfString(u) ==
  IF (IF u.query = "" THEN endsWithPdf(u.path) ELSE u.query = "?file=.pdf")
  THEN "pdf" ELSE "html"

InitClassify ==
  /\ NoCrawl
  /\ impl \in {"simple", "cheerio"}
  /\ event = PostedEvent
  /\ storedData = NoStoredData
  /\ ui = NoUi
  /\ \E u \in UrlStrings : call = [fn |-> "isPdfUrl", url |-> u, pc |-> "called", kind |-> "none"]

Classify ==
  /\ call.fn = "isPdfUrl"
  /\ call.pc = "called"
  /\ call' = [call EXCEPT !.pc = "returned",
                          !.kind = IF impl = "simple" THEN isPdfUrlString(call.url)
                                   ELSE endsWithPdfString(call.url)]
  /\ UNCHANGED <<CrawlState, event, storedData, ui>>

NextClassify == Classify

SpecClassify == InitClassify /\ [][NextClassify]_vars

\* ------------------------------------------------ saved-urls and api-key
\* netlify/functions/saved-urls.js 41-106, api-key.js 1-65 and
\* api-key-simple.js.  A field of a POST body is a set: empty when the body
\* has no such field, else holding its value.  call keeps the last call and
\* its reply, and as history what the caller has posted.
UrlLists == {<<>>, <<"a">>, <<"b", "a">>}

Prompts == {"", "prompt one", "prompt two"}

Opt(S) == {{}} \cup {{v} : v \in S}

SavedUrlsBodies == [urls : Opt(UrlLists), custom_prompt : Opt(Prompts)]

ApiKeys == {"story", "valid", "invalid"}

IdleCall ==
  [fn |-> "none", method |-> "none", status |-> 0, reply |-> [none |-> TRUE],
   posted |-> {}, keyPosted |-> FALSE]

InitEndpoints ==
  /\ NoCrawl
  /\ impl = "simple"
  /\ event \in [body : {"ok"}, api_key : {"none"}, env_key : BOOLEAN]
  /\ storedData = NoStoredData
  /\ ui = NoUi
  /\ call = IdleCall

\* the value of a field after `if (body.f) storedData.f = body.f` (an array,
\* also the empty one, is truthy)
Stored(old, field) == IF field = {} THEN old ELSE CHOOSE v \in field : TRUE

\* `if (body.custom_prompt !== undefined) storedData.custom_prompt = body.custom_prompt`
\* takes the same course for the prompts here: every given string is stored
SavedUrlsPost ==
  /\ \/ \E body \in SavedUrlsBodies :
          /\ storedData' = [urls |-> Stored(storedData.urls, body.urls),
                            custom_prompt |-> Stored(storedData.custom_prompt,
                                                     body.custom_prompt)]
          /\ call' = [call EXCEPT !.fn = "saved-urls", !.method = "POST", !.status = 200,
                                  !.reply = [success |-> TRUE, stored |-> storedData'],
                                  !.posted = {body}]
     \/ /\ call' = [call EXCEPT !.fn = "saved-urls", !.method = "POST", !.status = 400,
                                !.reply = [error |-> "Invalid JSON data"]]
        /\ UNCHANGED storedData
  /\ UNCHANGED <<CrawlState, event, ui>>

\* body: JSON.stringify(storedData)
SavedUrlsGet ==
  /\ call' = [call EXCEPT !.fn = "saved-urls", !.method = "GET", !.status = 200,
                          !.reply = storedData]
  /\ UNCHANGED <<CrawlState, event, storedData, ui>>

\* "Simple in-memory storage (will reset on function cold start)": the
\* platform loads the module anew and storedData is the literal again
ColdStart ==
  /\ storedData # NoStoredData
  /\ storedData' = NoStoredData
  /\ UNCHANGED <<CrawlState, event, call, ui>>

\* api-key.js POST: 'story' is accepted as it is, any other key is tried on
\* the API; nothing is kept
ApiKeyPost ==
  /\ \E k \in ApiKeys :
       call' = [call EXCEPT !.fn = "api-key", !.method = "POST",
                            !.status = IF k = "invalid" THEN 400 ELSE 200,
                            !.reply = [status |-> IF k = "invalid" THEN "error" ELSE "success"],
                            !.keyPosted = (@ \/ k # "invalid")]
  /\ UNCHANGED <<CrawlState, event, storedData, ui>>

\* api-key-simple.js POST: a missing key is refused, any other key is tried
\* on the API ('story' is no key of the API); nothing is kept
ApiKeySimplePost ==
  /\ \E k \in ApiKeys \cup {"none"} :
       call' = [call EXCEPT !.fn = "api-key-simple", !.method = "POST",
                            !.status = IF k = "valid" THEN 200 ELSE 400,
                            !.reply = [status |-> IF k = "valid" THEN "success" ELSE "error"],
                            !.keyPosted = (@ \/ k = "valid")]
  /\ UNCHANGED <<CrawlState, event, storedData, ui>>

\* GET of either function: has_api_key: !!process.env.OPENAI_API_KEY
ApiKeyGet ==
  /\ call' = [call EXCEPT !.fn = "api-key", !.method = "GET", !.status = 200,
                          !.reply = [has_api_key |-> event.env_key]]
  /\ UNCHANGED <<CrawlState, event, storedData, ui>>

NextEndpoints ==
  SavedUrlsPost \/ SavedUrlsGet \/ ColdStart \/ ApiKeyPost \/ ApiKeySimplePost \/ ApiKeyGet

SpecEndpoints == InitEndpoints /\ [][NextEndpoints]_vars

\* ------------------------------------------------ one instance, many requests
\* The platform calls exports.handler of a loaded module again for the next
\* request: the handler's locals are new, the module-level savedData is the
\* one the earlier request left.
InstanceRequests ==
  [urls : {<<>>, <<"a">>, <<"p">>}, follow_links : BOOLEAN, max_depth : 1..MaxDepthReq]

InitInstance == InitCrawl(InstanceRequests) /\ impl = "simple" /\ anchors = SmallWeb

NextInvocation ==
  /\ hpc = "done"
  /\ req' \in InstanceRequests
  /\ hpc' = "start"
  /\ idx' = 1
  /\ exc' = FALSE
  /\ browserOpen' = FALSE
  /\ allContent' = <<>>
  /\ visitedUrls' = {}
  /\ totalUrlsCrawled' = 0
  /\ tasks' = <<>>
  /\ fetches' = [u \in AllUrls |-> 0]
  /\ response' = NoResponse
  /\ failedSeeds' = {}
  /\ failedUrls' = {}
  /\ summarizer' = "none"
  /\ UNCHANGED <<impl, now, crawlStart, deadlineElapsed, lim, anchors, cancelled, event,
                 savedData, call, storedData, ui>>

NextInstance == HandlerStep \/ CrawlUrlStep \/ NextInvocation

SpecInstance == InitInstance /\ [][NextInstance]_vars

\* ------------------------------------------------ the caller's abort
\* frontend/src/App.jsx: the request is sent with fetch(..., { signal:
\* abortController.signal }) and stopAnalysis calls cancelRequest.abort():
\* the caller's fetch is rejected.  The functions are given no signal and
\* test none, so nothing of the handler's state changes.
stopAnalysis ==
  /\ hpc # "done"
  /\ ~cancelled
  /\ cancelled' = TRUE
  /\ UNCHANGED <<req, hpc, idx, exc, browserOpen, allContent, visitedUrls,
                 totalUrlsCrawled, tasks, response, impl, now, fetches, failedSeeds,
                 failedUrls, summarizer, crawlStart, deadlineElapsed, lim, anchors, event,
                 savedData, call, storedData, ui>>

NextCancel == HandlerStep \/ CrawlUrlStep \/ Tick \/ stopAnalysis

SpecCancel == InitDeadline /\ [][NextCancel]_vars

\* ------------------------------------------------ crawlUrl with a start time
\* part_002 70-80: crawlUrl(url, browser, depth, maxDepth, visitedUrls,
\* startTime, maxElapsedMs) as a caller that passes a start time calls it, the
\* way line 114 writes the call.  While the handler waits for its seed's
\* crawl, calls arrive for any URL, any depth and any start time that is not
\* in the future; `if (!startTime) startTime = Date.now()` makes a missing
\* start time the time of the call.

MaxCalls == 2

StartTimes == {k * 5000 : k \in 0..MaxTicks}

EntryRequests == [urls : {<<"a">>, <<"p">>}, follow_links : {TRUE}, max_depth : 1..MaxDepthReq]

InitEntry == InitCrawl(EntryRequests) /\ impl = "deadline" /\ anchors = SmallWeb

CrawlUrlCall ==
  /\ hpc = "crawl"
  /\ Len(tasks) < MaxCalls
  /\ \E u \in Urls, depth \in 1..(MaxDepthReq + 1), start \in {s \in StartTimes : s <= now} :
       LET r == StartCall(tasks, visitedUrls, u, depth, Root, idx, start)
       IN /\ tasks' = r[1]
          /\ visitedUrls' = r[2]
  /\ UNCHANGED <<HandlerVars, fetches, failedSeeds, failedUrls>>

NextEntry == HStart \/ HPdfSeed \/ HLaunch \/ CrawlUrlStep \/ Tick \/ CrawlUrlCall

SpecEntry == InitEntry /\ [][NextEntry]_vars

\* ------------------------------------------------ the crawl under fair scheduling
\* Every fetch returns or fails and the event loop runs every continuation
\* that is ready: an enabled step of a crawlUrl call, and an enabled step of
\* the handler, is taken in the end.
FairSpec == Spec /\ WF_vars(HandlerStep) /\ WF_vars(CrawlUrlStep)

FairSpecWebsite ==
  /\ SpecWebsite
  /\ WF_vars(WStart \/ WProcessPDF \/ WCrawled \/ WSummarize)
  /\ WF_vars(WebsiteCrawlStep)

FairSpecCheerio ==
  /\ SpecCheerio
  /\ WF_vars(CStart \/ CAllDone \/ CSummarize)
  /\ WF_vars(CheerioCrawlStep)

\* ------------------------------------------------ the dashboard
\* frontend/src/App.jsx 1015-1252: handleSubmit, its simulateCrawling loop,
\* its fetch of the crawl function, the timer that completes the progress
\* display, and stopAnalysis.  The backend is its reply only.  The interval
\* that recomputes estimatedTime (lines 1093-1111) writes no other field and
\* is left out; the timeoutController of lines 1117-1120 is given to no
\* fetch and its abort has no effect.

MaxRuns == 2
MaxUiUrls == 2

FinalStages == {"complete", "error", "cancelled"}

\* abortController.signal.aborted, for the controller of analysis r
Aborted(r) == r \in ui.aborted

\* the rejection of an aborted fetch is handled before any other task runs
MicrotaskPending == \E r \in 1..ui.run : ui.fetch[r] = "aborted"

\* the backend and the rest of the state are idle while the dashboard runs
DashboardFrame == UNCHANGED <<CrawlState, event, call, storedData>>

InitDashboard ==
  /\ NoCrawl
  /\ impl = "simple"
  /\ event = PostedEvent
  /\ storedData = NoStoredData
  /\ call = NoCall
  /\ ui = NoUi

\* setResults(prev => [{...}, ...prev])
AddResult(r, status) == <<[run |-> r, status |-> status]>> \o ui.results

\* handleSubmit up to its `await fetch(...)`: resetProgress, a new
\* AbortController, stage 'crawling', isLoading true, and the first
\* iteration of simulateCrawling up to its timer.  The button shows
\* loading={isLoading} and takes no click while it does.
handleSubmit ==
  /\ ui.run < MaxRuns
  /\ ~ui.isLoading
  /\ ~MicrotaskPending
  /\ \E n \in 1..MaxUiUrls :
       ui' = [ui EXCEPT !.run = @ + 1,
                        !.stage = "crawling",
                        !.isLoading = TRUE,
                        !.cancelRequest = ui.run + 1,
                        !.total = Append(@, n),
                        !.sim = Append(@, [pc |-> "timer", i |-> 1]),
                        !.fetch = Append(@, "pending"),
                        !.timer = Append(@, "none")]
  /\ DashboardFrame

\* simulateCrawling from the end of one timer to the next await: the URL is
\* recorded as crawled or failed, the loop goes on to the next URL (abort
\* check, current = i + 1, next timer) or ends (abort check, stage
\* 'analyzing').  The exception of an abort check is caught by nobody.
simulateCrawling(r) ==
  /\ ui.sim[r].pc = "timer"
  /\ ~MicrotaskPending
  /\ ui' = IF Aborted(r)
           THEN [ui EXCEPT !.sim[r].pc = "thrown"]
           ELSE IF ui.sim[r].i < ui.total[r]
           THEN [ui EXCEPT !.sim[r].i = @ + 1]
           ELSE [ui EXCEPT !.sim[r].pc = "done", !.stage = "analyzing"]
  /\ DashboardFrame

\* catch (error) { ... } finally { setIsLoading(false); setCancelRequest(null); }
\* for an error that is no abort: stage 'error' and an error entry
CaughtError(r) ==
  [ui EXCEPT !.stage = "error", !.results = AddResult(r, "error"),
             !.isLoading = FALSE, !.cancelRequest = 0, !.fetch[r] = "returned"]

\* the same for an AbortError or 'Analysis cancelled by user': stage
\* 'cancelled', no entry
CaughtCancel(r) ==
  [ui EXCEPT !.stage = "cancelled", !.isLoading = FALSE, !.cancelRequest = 0,
             !.fetch[r] = "returned"]

\* await fetch(...) settles: a response that is ok, one that is not
\* (`HTTP error! status: ...`), or a rejection ('Failed to fetch')
FetchSettles(r) ==
  /\ ui.fetch[r] = "pending"
  /\ ~MicrotaskPending
  /\ \/ ui' = [ui EXCEPT !.fetch[r] = "json"]
     \/ ui' = CaughtError(r)
  /\ DashboardFrame

\* await response.json() settles; then the abort check, the 3000 ms timer,
\* the success entry and the finally
JsonSettles(r) ==
  /\ ui.fetch[r] = "json"
  /\ ~MicrotaskPending
  /\ \/ ui' = CaughtError(r)
     \/ ui' = IF Aborted(r)
              THEN CaughtCancel(r)
              ELSE [ui EXCEPT !.timer[r] = "armed",
                              !.results = AddResult(r, "success"),
                              !.isLoading = FALSE, !.cancelRequest = 0,
                              !.fetch[r] = "returned"]
  /\ DashboardFrame

\* the fetch, or the reading of the body, rejects with the AbortError
AbortCaught(r) ==
  /\ ui.fetch[r] = "aborted"
  /\ ui' = CaughtCancel(r)
  /\ DashboardFrame

\* setTimeout(() => setProgress(stage: 'complete'), 3000): it fires 3 s after
\* the response at the earliest, the first simulated URL takes 3 s at most
CompleteTimer(r) ==
  /\ ui.timer[r] = "armed"
  /\ ui.sim[r].pc # "timer" \/ ui.sim[r].i >= 2
  /\ ~MicrotaskPending
  /\ ui' = [ui EXCEPT !.timer[r] = "fired", !.stage = "complete"]
  /\ DashboardFrame

\* stopAnalysis in the dashboard: if (cancelRequest) { cancelRequest.abort();
\* setCancelRequest(null); setIsLoading(false); stage 'cancelled' }.  The
\* pending fetch, or the pending read of the body, is rejected.
stopAnalysisClicked ==
  /\ ui.cancelRequest # 0
  /\ ~MicrotaskPending
  /\ LET r == ui.cancelRequest IN
       ui' = [ui EXCEPT !.aborted = @ \cup {r}, !.cancelRequest = 0,
                        !.isLoading = FALSE, !.stage = "cancelled",
                        !.fetch[r] = "aborted"]
  /\ DashboardFrame

DashboardStep ==
  \E r \in 1..ui.run :
    simulateCrawling(r) \/ FetchSettles(r) \/ JsonSettles(r) \/ AbortCaught(r)
    \/ CompleteTimer(r)

NextDashboard == handleSubmit \/ stopAnalysisClicked \/ DashboardStep

SpecDashboard == InitDashboard /\ [][NextDashboard]_vars

\* ------------------------------------------------ the request's checks
\* What exports.handler does with a POST before its crawl loop, in
\* crawl-and-summarize-simple.js (impl = "simple") and in part_002 (impl =
\* "deadline").  event.body tells what the body is: text that is no JSON, an
\* object without urls, an object whose urls is the string of one URL, or an
\* object whose urls is the array req.urls.

EventBodies == {"badJson", "noUrls", "urlsString", "ok"}

Events == [body : EventBodies, api_key : {"none", "story", "key"}, env_key : BOOLEAN]

ValidateRequests ==
  [urls : {<<>>, <<"a">>, <<"p">>}, follow_links : BOOLEAN, max_depth : 1..MaxDepthReq]

\* savedData as an earlier request left it
SavedBefore == <<"b">>

InitValidate ==
  /\ req \in ValidateRequests
  /\ lim = NoLimit
  /\ hpc = "request"
  /\ idx = 1
  /\ exc = FALSE
  /\ browserOpen = FALSE
  /\ allContent = <<>>
  /\ visitedUrls = {}
  /\ totalUrlsCrawled = 0
  /\ tasks = <<>>
  /\ fetches = [u \in AllUrls |-> 0]
  /\ response = NoResponse
  /\ now = 0
  /\ failedSeeds = {}
  /\ failedUrls = {}
  /\ cancelled = FALSE
  /\ event \in Events
  /\ savedData = SavedBefore
  /\ call = NoCall
  /\ storedData = NoStoredData
  /\ ui = NoUi
  /\ summarizer = "none"
  /\ crawlStart = 0
  /\ deadlineElapsed = FALSE
  /\ impl \in {"simple", "deadline"}
  /\ anchors = SmallWeb

\* const api_key = body.api_key || process.env.OPENAI_API_KEY
ApiKey ==
  IF event.api_key # "none" THEN event.api_key
  ELSE IF event.env_key THEN "key" ELSE "none"

\* body.urls ? body.urls.length : 0
BodyUrlsLength ==
  CASE event.body = "ok" -> Len(req.urls)
    [] event.body = "urlsString" -> UrlLen("a")
    [] OTHER -> 0

\* !urls || !Array.isArray(urls), the part of the check on urls that a body
\* without an array fails
NoUrlsArrayUnchecked == FALSE
NoUrlsArray == event.body \in {"noUrls", "urlsString"}

\* the status the checks answer with, or 0 when the request passes them on
\* to the test of urls.length and the crawl loop
CheckedStatus ==
  IF impl = "simple"
  THEN CASE ~event.env_key -> 500
         [] event.body = "badJson" -> 400
         [] NoUrlsArray -> 400
         [] OTHER -> 0
  ELSE CASE event.body = "badJson" -> 500
         [] ApiKey = "story" -> 200
         [] ApiKey = "none" -> 400
         [] NoUrlsArray -> 400
         [] OTHER -> 0

HValidate ==
  /\ hpc = "request"
  /\ IF CheckedStatus = 0
     THEN hpc' = "start" /\ UNCHANGED response
     ELSE /\ hpc' = "done"
          /\ response' = Response(CheckedStatus,
                                  IF CheckedStatus = 200 THEN BodyUrlsLength ELSE 0, FALSE)
  /\ UNCHANGED <<req, impl, idx, exc, browserOpen, allContent, visitedUrls,
                 totalUrlsCrawled, tasks, fetches, failedSeeds, failedUrls, summarizer,
                 crawlStart, ClockVars>>

NextValidate == HValidate \/ HandlerStep \/ CrawlUrlStep

SpecValidate == InitValidate /\ [][NextValidate]_vars

\* ------------------------------------------------------------ properties
BlocksOfSeed(i) == {b \in 1..Len(allContent) : allContent[b].seed = i}

Finished200 == hpc = "done" /\ response.status = 200

\* C1: within one request no URL is fetched more than once, also when the
\* same URL is given twice as a seed or is both a seed and a discovered link.
C1_NoUrlFetchedTwice == \A u \in Urls : fetches[u] <= 1

\* C2: every crawlUrl call that goes on to process its URL was called with
\* a depth of at most max_depth; a call with a greater depth returns "" and
\* fetches nothing.
C2_DepthAtMostMaxDepth ==
  \A t \in 1..Len(tasks) :
    /\ tasks[t].pc # "skipped" => tasks[t].depth <= req.max_depth
    /\ tasks[t].pc = "skipped" => tasks[t].out = <<>>

\* a discovered link processed at exactly max_depth = 2
C2_LinkAtMaxDepth ==
  \E t \in 1..Len(tasks) :
    /\ tasks[t].pc = "done"
    /\ tasks[t].parent # 0
    /\ tasks[t].depth = req.max_depth
    /\ fetches[tasks[t].url] > 0

\* C3: with follow_links false the reported urls_analyzed equals the number
\* of seed URLs, whatever max_depth is and whether a seed succeeds or fails.
C3_NoFollowCountsSeeds ==
  (Finished200 /\ ~req.follow_links) => response.urls_analyzed = Len(req.urls)

\* C4: when a discovered link fails (newPage, goto, evaluate or close), the
\* parent call still returns the parent page's text and the texts of the
\* sibling links that were crawled.
C4_LinkFailureStaysLocal ==
  \A t \in 1..Len(tasks) :
    (/\ tasks[t].pc \in {"close", "done"}
     /\ \E c \in Children(t) : tasks[c].pc = "rejected")
    => /\ \E k \in {"main", "mainBig"} : Has(tasks[t].out, <<k, tasks[t].url>>)
       /\ \A c \in Children(t) :
            tasks[c].pc = "done" =>
              \A j \in 1..Len(tasks[c].out) : Has(tasks[t].out, tasks[c].out[j])

\* C5: a seed whose fetch failed has exactly one block in allContent once the
\* loop has passed it, and the response is 200 whenever the summarizer
\* call succeeded.
C5_OneErrorBlockPerFailedSeed ==
  /\ \A i \in failedSeeds : i < idx => Cardinality(BlocksOfSeed(i)) = 1
  /\ (hpc = "done" /\ summarizer = "ok") => response.status = 200

\* C10: a PDF URL is a leaf: a crawlUrl call on it only awaits the PDF text
\* and starts no call, the handler never launches a browser for a PDF seed,
\* and the request with the one PDF seed, follow_links = true and
\* max_depth = 2 reports 1 URL.
C10_PdfIsLeaf ==
  /\ \A t \in 1..Len(tasks) :
       isPdfUrl(tasks[t].url) =>
         tasks[t].pc \in {"pdf", "done", "skipped"} /\ Children(t) = {}
  /\ hpc \in {"launch", "crawl", "newPage", "goto", "pageClose", "browserClose"}
       => ~isPdfUrl(req.urls[idx])
  /\ (Finished200 /\ req = [urls |-> <<"p">>, follow_links |-> TRUE, max_depth |-> 2])
       => response.urls_analyzed = 1

\* a PDF found as a link has been read and its text joined to the page's
C10_PdfLinkRead ==
  \E t \in 1..Len(tasks) :
    /\ tasks[t].pc = "done"
    /\ ~isPdfUrl(tasks[t].url)
    /\ \E u \in PdfUrls : Has(tasks[t].out, <<"pdf", u>>)

\* C6: when the time budget (maxElapsedMs) runs out while a crawlUrl call is
\* pending, the response carries crawl_warning.
C6_ElapsedBudgetIsSignalled ==
  (Finished200 /\ deadlineElapsed) => response.crawl_warning

\* C7: every crawlUrl call of a request, for every seed and at every depth,
\* measures the time budget from the one start time of the request's crawl.
C7_OneStartTime ==
  \A t \in 1..Len(tasks) : tasks[t].start = crawlStart

\* C8: the content string sent to the summarizer is never longer than the
\* handler's maxContentLength (4000, 2000 or 8000).
C8_ContentWithinMax ==
  lim.pc \in {"sent", "done"} /\ lim.status # 400
    => lim.sent <= maxContentLength(lim.handler)

\* C9: when combinedContent is longer than 12000 characters and is cut for
\* the summarizer, the response says so.
C9_CutIsReported ==
  (Finished200 /\ combinedContent > CorpusCap) => response.crawl_warning

\* --------------------------------------------- the crawl of the third site
\* the number of anchors on a page of the third site
PageLinkCount == Len(CHOOSE hrefs \in anchors : TRUE)

\* the crawlUrl call the handler made for the seed "w"
IsSeedCall(t) == tasks[t].parent = 0 /\ tasks[t].url = "w"

\* call t has read its page's anchors and started the calls for them, and
\* none of what it awaited afterwards has thrown
LinksRead(t) ==
  \/ tasks[t].pc = "await"
  \/ /\ tasks[t].pc \in {"close", "done"}
     /\ tasks[t].depth < req.max_depth
     /\ Has(tasks[t].out, <<"main", tasks[t].url>>)

\* call t has read its page and returns its text
PageRead(t) ==
  tasks[t].pc \in {"hrefs", "await", "close", "done"} /\ Has(tasks[t].out, <<"main", tasks[t].url>>)

C12_EverySeedFetched ==
  req.max_depth >= 1 =>
    \A i \in 1..Len(req.urls) :
      i < idx =>
        \/ fetches[req.urls[i]] >= 1
        \/ \E b \in BlocksOfSeed(i) : allContent[b].kind = "error"

\* the URLs a fetch was issued for during the request
FetchedUrls == {u \in AllUrls : fetches[u] > 0}

\* C13: the urls_analyzed of a 200 response is the number of distinct URLs
\* visited during the request.
C13_CountIsDistinctVisited ==
  Finished200 => response.urls_analyzed = Cardinality(FetchedUrls)

\* C14: no crawlUrl call starts more than 5 calls for the links of its page,
\* whatever the number of anchors on the page.
C14_AtMostFanOutCapLinks ==
  \A t \in 1..Len(tasks) : Cardinality(Children(t)) <= FanOutCap

\* a page with more than 5 anchors, each to a page not yet visited, for which
\* exactly 5 calls were started
C14_PageCutToCap ==
  \E t \in 1..Len(tasks) :
    /\ PageLinkCount > FanOutCap
    /\ tasks[t].pc = "await"
    /\ Cardinality(Children(t)) = FanOutCap

\* C15: every link a crawlUrl call follows has the hostname of the page it
\* was found on; a link to another origin is never the URL of a call.
C15_FollowedLinksSameHost ==
  \A t \in 1..Len(tasks) :
    tasks[t].parent # 0 => hostname(tasks[t].url) = hostname(tasks[tasks[t].parent].url)

\* call t went past the visited check and issues (or issued) the fetch of its URL
PastVisitedCheck(t) ==
  tasks[t].pc # "skipped" /\ ~Has(tasks[t].out, <<"stop", tasks[t].url>>)

\* C16: the visited check and the insertion are one step of crawlUrl, so
\* under every interleaving of the concurrent calls for a page's links no
\* two calls that share the visited set go on to fetch the same URL.
C16_NoTwoCallsFetchSameUrl ==
  \A t1, t2 \in 1..Len(tasks) :
    (t1 # t2 /\ PastVisitedCheck(t1) /\ PastVisitedCheck(t2))
      => tasks[t1].url # tasks[t2].url

\* two calls for the links of one page are pending at the same time
C16_SiblingsInFlight ==
  \E t1, t2 \in 1..Len(tasks) :
    /\ t1 # t2
    /\ tasks[t1].parent # 0
    /\ tasks[t1].parent = tasks[t2].parent
    /\ tasks[t1].pc \in {"newPage", "goto", "pdf"}
    /\ tasks[t2].pc \in {"newPage", "goto", "pdf"}
    /\ {tasks[t1].url, tasks[t2].url} \subseteq visitedUrls

\* C17: once the fetch of a URL has failed, no later step of the same
\* request fetches that URL again.
C17_FailedUrlNotFetchedAgain ==
  [][\A u \in AllUrls : u \in failedUrls => fetches'[u] = fetches[u]]_vars

\* the request's urls is missing, is no array, or is the empty array
InvalidUrls ==
  \/ event.body \in {"noUrls", "urlsString"}
  \/ event.body = "ok" /\ req.urls = <<>>

NoFetchNoSave == (\A u \in AllUrls : fetches[u] = 0) /\ savedData = SavedBefore

InFlight ==
  Cardinality({t \in 1..Len(tasks) : tasks[t].pc \in {"get", "goto", "pdf"}})
  + (IF hpc \in {"pdfSeed", "goto"} THEN 1 ELSE 0)

\* C19: at every moment of a request at most 5 fetches are in flight, for
\* any max_depth and any number of seeds.
C19_InFlightWithinFanOutCap == InFlight <= FanOutCap

\* C20: once the caller has cancelled the request, no step of the crawl
\* starts a fetch, in any branch and whether or not the time budget is spent.
C20_NoFetchAfterCancel ==
  [][cancelled => fetches' = fetches]_vars

\* ------------------------------------------------ the corpus and its blocks
\* the blocks of allContent that begin with `Source: ${u}`
BlocksOfUrl(u) == {b \in 1..Len(allContent) : allContent[b].url = u}

\* C21: when the loop over the seeds has ended, every URL that was visited,
\* seed or followed link, has exactly one block of its own in allContent,
\* headed by that URL.
C21_OneBlockPerVisitedUrl ==
  hpc = "summarize" =>
    \A u \in FetchedUrls \cup visitedUrls : Cardinality(BlocksOfUrl(u)) = 1

\* C22: when the handler pushes the block of a crawled seed, every text of a
\* followed link that crawlUrl returned is in the block, however long the
\* text of the seed's own page is.
C22_LinkTextReachesCorpus ==
  [][(hpc = "crawl" /\ hpc' = "browserClose" /\ tasks[Root].pc = "done")
       => \A j \in 1..Len(tasks[Root].out) :
            tasks[Root].out[j][2] # tasks[Root].url
              => Has(allContent'[Len(allContent')].body, tasks[Root].out[j])]_vars

\* ------------------------------------------------ the size of a crawl
RECURSIVE Pow(_, _)
Pow(b, e) == IF e = 0 THEN 1 ELSE b * Pow(b, e - 1)

\* 1 + b + ... + b^e
RECURSIVE PowSum(_, _)
PowSum(b, e) == IF e = 0 THEN 1 ELSE Pow(b, e) + PowSum(b, e - 1)

\* the number of URLs visited during the request
urlsVisited == Cardinality(FetchedUrls)

\* C23 (as stated): the number of URLs visited is at most the number of
\* seeds times 5^max_depth.
C23_VisitedWithinPower ==
  urlsVisited <= Len(req.urls) * Pow(FanOutCap, req.max_depth)

\* C23 (amended): the seed is at depth 0 and the pages at every depth up to
\* max_depth are visited, so the number of URLs visited is at most the
\* number of seeds times 1 + 5 + ... + 5^max_depth.
C23_VisitedWithinPowerSum ==
  urlsVisited <= Len(req.urls) * PowSum(FanOutCap, req.max_depth)

\* a seed whose page shows more than 5 links, crawled with max_depth = 1:
\* the seed and 5 links have been visited
C23_SeedAndFiveLinks ==
  /\ req = [urls |-> <<"w">>, follow_links |-> TRUE, max_depth |-> 1]
  /\ PageLinkCount > FanOutCap
  /\ hpc = "summarize"
  /\ urlsVisited = 1 + FanOutCap

\* ------------------------------------------------ PDF or HTML
\* C24: a URL string is classified as PDF exactly when its path ends with
\* '.pdf' in any letter case, as HTML otherwise, and the classification of
\* no string throws.
C24_PdfIffPathEndsWithPdf ==
  (call.fn = "isPdfUrl" /\ call.pc = "returned")
    => call.kind = IF endsWithPdf(call.url.path) THEN "pdf" ELSE "html"

\* ------------------------------------------------ the requested depth
\* C25: with follow_links = true and max_depth >= 2, the links found on a
\* seed page that was fetched are followed: when the seed's crawlUrl has
\* returned the page's text, the page's first link has been fetched.
C25_RequestedDepthIsUsed ==
  \A t \in 1..Len(tasks) :
    (/\ req.follow_links
     /\ req.max_depth >= 2
     /\ tasks[t].parent = 0
     /\ tasks[t].pc = "done"
     /\ \E k \in {"short", "main", "mainBig"} : Has(tasks[t].out, <<k, tasks[t].url>>))
    => \A hrefs \in anchors :
         (hrefs # <<>> /\ hrefs[1] # tasks[t].url) => fetches[hrefs[1]] > 0

\* ------------------------------------------------ what is kept
\* C26: a GET of saved-urls that follows a POST of the URLs U and the
\* prompt P, with no POST in between, returns urls = U and custom_prompt = P.
C26_GetReturnsPosted ==
  (call.fn = "saved-urls" /\ call.method = "GET")
    => \A body \in call.posted :
         (body.urls # {} /\ body.custom_prompt # {})
           => /\ {call.reply.urls} = body.urls
              /\ {call.reply.custom_prompt} = body.custom_prompt

\* C27: a GET of api-key that follows a POST of a key answered with success
\* reports has_api_key = true.
C27_KeyPostedIsReported ==
  (call.fn = "api-key" /\ call.method = "GET" /\ call.keyPosted)
    => call.reply.has_api_key

\* C28: no mutable state survives between crawl invocations: whenever the
\* handler begins a request, the module-level savedData is what the module's
\* text sets it to, whatever requests were handled before.
C28_NoStateSurvives == hpc = "start" => savedData = <<>>

\* C29: in the crawlUrl that carries a time budget, a call whose page was
\* fetched and whose text and links were extracted without error returns a
\* string that contains the page's main text.
C29_PageReadReturnsMainText ==
  impl = "deadline" =>
    \A t \in 1..Len(tasks) :
      LET u == tasks[t].url IN
      (/\ tasks[t].pc = "done"
       /\ ~isPdfUrl(u)
       /\ PastVisitedCheck(t)
       /\ ~Has(tasks[t].out, <<"err", u>>))
        => \E k \in PageTexts(u) : Has(tasks[t].out, <<k, u>>)


\* C30: a call for an HTML page that is fetched without error, with link
\* following enabled and depth < maxDepth, goes on to read the page's links
\* and to call crawlUrl for the eligible ones, whatever the length of the
\* page's text.
C30_FetchedPageLinksFollowed ==
  [][\A t \in 1..Len(tasks) :
       (/\ impl = "simple"
        /\ t <= Len(tasks')
        /\ tasks[t].pc = "goto"
        /\ tasks'[t].pc # "goto"
        /\ req.follow_links
        /\ tasks[t].depth < req.max_depth
        /\ ~Has(tasks'[t].out, <<"err", tasks[t].url>>))
         => tasks'[t].pc = "hrefs"]_vars


\* ------------------------------------------------ the time budget
\* the calls that a step has started
NewCalls == {t \in 1..Len(tasks') : t > Len(tasks)}

\* C31: a crawlUrl call that finds the time budget spent fetches nothing,
\* leaves the visited set as it was (its URL is not marked as visited) and
\* returns the "Crawl stopped early" text and nothing else.
C31_SpentBudgetTouchesNothing ==
  [][\A t \in NewCalls :
       LET u == tasks'[t].url IN
       (impl = "deadline" /\ now - tasks'[t].start > maxElapsedMs)
         => /\ tasks'[t].pc = "done"
            /\ tasks'[t].out = <<<<"stop", u>>>>
            /\ visitedUrls' = visitedUrls
            /\ fetches' = fetches]_vars

\* a call has found the budget spent, for a URL that no call had visited
C31_CallStoppedEarly ==
  \E t \in 1..Len(tasks) :
    /\ impl = "deadline"
    /\ tasks[t].out = <<<<"stop", tasks[t].url>>>>
    /\ tasks[t].url \notin visitedUrls
    /\ fetches[tasks[t].url] = 0


\* ------------------------------------------------ termination
\* C32: on every link graph, with pages that link to each other and to
\* themselves, and with every fetch returning or failing, the recursive
\* crawl ends: the handler gets past its crawl and returns.
C32_CrawlTerminates == <>(hpc = "done")

\* the handler has returned after a crawl of one seed that went on from the
\* seed's page to a page it links to
C32_RecursiveCrawlEnded ==
  /\ hpc = "done"
  /\ Len(req.urls) = 1
  /\ req.max_depth = MaxDepthReq
  /\ Cardinality(visitedUrls) >= 2


\* ------------------------------------------------ one block per seed
\* C33: when the loop over the seeds has ended, allContent holds exactly one
\* block for every seed, its content or its error text, in the order of the
\* seed list, whatever succeeded or failed on the way, the close of the
\* browser included.
C33_OneBlockPerSeedInOrder ==
  (impl \in {"simple", "deadline"} /\ hpc = "summarize") =>
    /\ Len(allContent) = Len(req.urls)
    /\ \A i \in 1..Len(allContent) : allContent[i].seed = i


\* ------------------------------------------------ the crawl raced against a timer
\* the entry of seed i in crawledTexts: the text its crawlUrl call returned,
\* or the "Crawl timeout" error text when the timer fired first
RacedEntry(i) ==
  IF i \in failedSeeds THEN ErrorBlock(i)
  ELSE Block(i, "text", tasks[CheerioRoot(i)].out)

\* C34: once the wait for all the races is over, every seed of the request
\* has exactly one entry, in seed order: its crawl's text, or the timeout
\* error text if the timer fired first; the entries stay as they are while
\* crawls that lost their race go on and complete.
C34_OneEntryPerSeedInOrder ==
  (impl = "capped" /\ hpc \in {"summarize", "done"} /\ req.urls # <<>>) =>
    /\ Len(allContent) = Len(req.urls)
    /\ \A i \in 1..Len(allContent) : allContent[i] = RacedEntry(i)


\* ------------------------------------------------ a body that is no JSON
\* C35: a crawl request whose body is not valid JSON is answered with status
\* 400 (error 'Invalid JSON in request body'), and no crawl is started for
\* it: nothing is fetched and no crawlUrl call is made.
C35_InvalidJsonRejected ==
  event.body = "badJson" =>
    /\ NoFetchNoSave
    /\ tasks = <<>>
    /\ hpc = "done" => response.status = 400


\* ------------------------------------------------ the progress stage
\* C36: once the stage of an analysis run is 'complete', 'error' or
\* 'cancelled' it does not go back to 'crawling' or 'analyzing' unless a new
\* analysis is submitted, whatever the order of the simulated-progress loop,
\* the backend's reply and the completion timer.
C36_FinalStageStays ==
  [][(ui.stage \in FinalStages /\ ui'.stage \in {"crawling", "analyzing"})
       => ui'.run # ui.run]_vars

\* the analyses the user has stopped
Stopped == {r \in 1..ui.run : r \in ui.aborted}

\* C37: an analysis that the user stops while its request is in flight adds
\* no entry to the results list, and as long as no new analysis is submitted
\* isLoading is false, the cancel handle is cleared and the stage is
\* 'cancelled'.
C37_StoppedRunLeavesNoResult ==
  \A r \in Stopped :
    /\ \A k \in 1..Len(ui.results) : ui.results[k].run # r
    /\ ui.run = r =>
         /\ ~ui.isLoading
         /\ ui.cancelRequest = 0
         /\ ui.stage = "cancelled"

====
